---- MODULE Spec2Model ----
(***************************************************************************)
(* Model of format_thesis.py: the heading classifier (detect_level and its *)
(* three numbering patterns), the format applicator (apply_run_format,     *)
(* apply_para_format), the compliance checker (check_format) and the       *)
(* conversion driver (convert_document).                                   *)
(*                                                                         *)
(* A text is a sequence of character tokens.  Each token stands for one    *)
(* class of characters that the patterns and str.strip() tell apart:       *)
(*   "1"     an ASCII digit 0-9          "F1"  a full-width digit          *)
(*   "."     the ASCII period            "F."  the ideographic full stop   *)
(*   " "     ASCII white space           "F "  the ideographic space       *)
(*   "DUN"   the ideographic comma       "CN"  a CJK numeral               *)
(*   "DI"    the ordinal prefix          "ZHANG" a chapter/section word    *)
(*   "x"     any other character                                           *)
(***************************************************************************)
EXTENDS Integers, Sequences, FiniteSets, TLC

VARIABLES fs, template, pc, inp, out, doc, all_sizes, idx, count, log,
          levels, writes, errPhase, lastOut, lastLevels, chained,
          prevLevels, issues, checkedDoc, checkedIsOutput, converts,
          inputBefore, arg, ret

vars == <<fs, template, pc, inp, out, doc, all_sizes, idx, count, log,
          levels, writes, errPhase, lastOut, lastLevels, chained,
          prevLevels, issues, checkedDoc, checkedIsOutput, converts,
          inputBefore, arg, ret>>

(***************************************************************************)
(* Bounds of the model.                                                    *)
(***************************************************************************)
MaxParas == 2
MaxRuns == 2
MaxTextLen == 6
MaxConverts == 2
MaxPad == 41

(***************************************************************************)
(* Program constants.                                                      *)
(***************************************************************************)
HEADING_MAX_LEN == 40
MAIN_TITLE_MAX_LEN == 30

\* The value of an attribute or element that is not there (find/get give None).
Absent == -1
\* A w:val that int() cannot parse.
BadVal == -2

Levels == {"main_title", "heading1", "heading2", "heading3", "body"}

(***************************************************************************)
(* Character classes of the patterns and of str.strip().                   *)
(***************************************************************************)
IsDigit(ch) == ch \in {"1", "F1"}
IsDot(ch) == ch \in {".", "F."}
IsSpace(ch) == ch \in {" ", "F "}
IsCjkNum(ch) == ch = "CN"

Max(a, b) == IF a > b THEN a ELSE b

\* The number of consecutive digits of t from position from on: the places
\* where a greedy [0-9...]+ starting there may stop are from .. from+n-1.
RECURSIVE DigitRun(_, _)
DigitRun(t, from) ==
    IF from <= Len(t) /\ IsDigit(t[from]) THEN 1 + DigitRun(t, from + 1) ELSE 0

\* The positions where a group of one or more digits starting at from may end.
DigitEnds(t, from) == from .. (from + DigitRun(t, from) - 1)

DotAt(t, k) == k <= Len(t) /\ IsDot(t[k])

\* str.strip(): drops leading and trailing white space.
RECURSIVE LStrip(_)
LStrip(t) == IF t # <<>> /\ IsSpace(Head(t)) THEN LStrip(Tail(t)) ELSE t

RECURSIVE RStrip(_)
RStrip(t) ==
    IF t # <<>> /\ IsSpace(t[Len(t)]) THEN RStrip(SubSeq(t, 1, Len(t) - 1)) ELSE t

strip(t) == RStrip(LStrip(t))

\* RE_HEADING3.match: digits, dot, digits, dot, digits at the start.
RE_HEADING3(t) ==
    \E a \in DigitEnds(t, 1) :
        /\ DotAt(t, a + 1)
        /\ \E b \in DigitEnds(t, a + 2) :
              /\ DotAt(t, b + 1)
              /\ DigitEnds(t, b + 2) # {}

\* RE_HEADING2.match: digits, dot, digits, and the negative lookahead
\* (?![dot][digit]) at the place where the second group of digits ends.  The
\* regex engine backtracks: the match succeeds when SOME end b of the second
\* group passes the lookahead.
RE_HEADING2(t) ==
    \E a \in DigitEnds(t, 1) :
        /\ DotAt(t, a + 1)
        /\ \E b \in DigitEnds(t, a + 2) :
              ~ (DotAt(t, b + 1) /\ b + 2 <= Len(t) /\ IsDigit(t[b + 2]))

\* The positions where a group of one or more characters of class numerals
\* (CJK numerals, with ASCII digits when withDigits) starting at from may end.
RECURSIVE NumeralRun(_, _, _)
NumeralRun(t, from, withDigits) ==
    IF from <= Len(t) /\ (IsCjkNum(t[from]) \/ (withDigits /\ t[from] = "1"))
    THEN 1 + NumeralRun(t, from + 1, withDigits) ELSE 0

NumeralEnds(t, from, withDigits) == from .. (from + NumeralRun(t, from, withDigits) - 1)

\* RE_HEADING1.match: one of the three alternatives at the start.
RE_HEADING1(t) ==
    \/ \E a \in DigitEnds(t, 1) :
          /\ a + 1 <= Len(t)
          /\ (IsSpace(t[a + 1]) \/ IsDot(t[a + 1]) \/ t[a + 1] = "DUN")
    \/ \E a \in NumeralEnds(t, 1, FALSE) :
          /\ a + 1 <= Len(t)
          /\ t[a + 1] \in {"DUN", "."}
    \/ /\ Len(t) >= 1 /\ t[1] = "DI"
       /\ \E a \in NumeralEnds(t, 2, TRUE) :
             /\ a + 1 <= Len(t)
             /\ t[a + 1] = "ZHANG"

(***************************************************************************)
(* Runs and paragraphs.                                                    *)
(***************************************************************************)
\* get_run_size: the w:sz value as an integer, 0 when it is not there.
\* (int() raises on a value it cannot parse: see SizeRaises.)
get_run_size(run) == IF run.sz = Absent THEN 0 ELSE run.sz

SizeRaises(para) == \E k \in 1..Len(para.runs) : para.runs[k].sz = BadVal

RECURSIVE MaxOf(_)
MaxOf(s) == IF s = <<>> THEN 0
            ELSE IF Len(s) = 1 THEN Head(s)
            ELSE Max(Head(s), MaxOf(Tail(s)))

para_max_size(para) ==
    MaxOf([k \in 1..Len(para.runs) |-> get_run_size(para.runs[k])])

\* para_is_bold: some run has a w:b element whose w:val is not "0".
para_is_bold(para) ==
    \E k \in 1..Len(para.runs) : para.runs[k].b \notin {"absent", "0"}

\* Mutant of IsPeak: the comparison with the neighbours is not strict.
IsPeak_weak(my_size, prev_size, next_size) ==
    my_size > 0 /\ my_size >= prev_size /\ my_size >= next_size

\* The size comparison of detect_level's rule 5.
IsPeak(my_size, prev_size, next_size) ==
    my_size > 0 /\ my_size > prev_size /\ my_size > next_size

\* Mutant of IsLong: the length rule is tried after the numbering patterns.
IsLong_afterNumbering(text) ==
    /\ Len(text) > HEADING_MAX_LEN
    /\ ~ (RE_HEADING3(text) \/ RE_HEADING2(text) \/ RE_HEADING1(text))

\* len(text) > HEADING_MAX_LEN, the second half of detect_level's first test.
IsLong(text) == Len(text) > HEADING_MAX_LEN

\* detect_level(para, all_sizes, idx); i is the 1-based position, so the
\* code's idx is i - 1.
detect_level(para, sizes, i) ==
    LET text == strip(para.text)
        my_size == para_max_size(para)
        prev_size == IF i > 1 THEN sizes[i - 1] ELSE 0
        next_size == IF i < Len(sizes) THEN sizes[i + 1] ELSE 0
    IN  IF text = <<>> \/ IsLong(text) THEN "body"
        ELSE IF RE_HEADING3(text) THEN "heading3"
        ELSE IF RE_HEADING2(text) THEN "heading2"
        ELSE IF RE_HEADING1(text) THEN "heading1"
        ELSE IF /\ Len(text) <= MAIN_TITLE_MAX_LEN
                /\ (para_is_bold(para) \/ IsPeak(my_size, prev_size, next_size))
             THEN "main_title"
        ELSE "body"


(***************************************************************************)
(* Format applicator.                                                      *)
(***************************************************************************)
\* apply_run_format: overwrites the four font attributes and both sizes.
apply_run_format(run, size_half_pt, chinese_font, western_font) ==
    [run EXCEPT !.ascii = western_font, !.hAnsi = western_font,
                !.eastAsia = chinese_font, !.cs = western_font,
                !.sz = size_half_pt, !.szCs = size_half_pt]

\* int(240 * multiplier); the multiplier is kept in tenths.
LineTwips(multiplier10) == (240 * multiplier10) \div 10

\* Mutant of IndentAfter: the else branch leaves the element as it was.
IndentAfter_stale(ind, level, tmpl) ==
    IF tmpl.first_line_indent /\ level = "body"
    THEN [ind EXCEPT !.present = TRUE, !.firstLine = tmpl.sizes[level] * 20]
    ELSE [ind EXCEPT !.present = TRUE]

\* The w:ind part of apply_para_format: the element is created when missing;
\* firstLine is set for an indented body paragraph, otherwise firstLine and
\* firstLineChars are popped.  No other attribute of the element is touched.
IndentAfter(ind, level, tmpl) ==
    IF tmpl.first_line_indent /\ level = "body"
    THEN [ind EXCEPT !.present = TRUE, !.firstLine = tmpl.sizes[level] * 20]
    ELSE [ind EXCEPT !.present = TRUE, !.firstLine = Absent,
                     !.firstLineChars = Absent]

\* The w:spacing part of apply_para_format.
SpacingAfter(sp, level, tmpl) ==
    [sp EXCEPT !.present = TRUE,
               !.before = tmpl.spacing[level][1] * 20,
               !.after = tmpl.spacing[level][2] * 20,
               !.line = LineTwips(IF level = "body" THEN tmpl.line_spacing ELSE 10),
               !.lineRule = "auto"]

apply_para_format(para, level, tmpl) ==
    [para EXCEPT !.hasPPr = TRUE,
                 !.sp = SpacingAfter(para.sp, level, tmpl),
                 !.ind = IndentAfter(para.ind, level, tmpl)]

(***************************************************************************)
(* Compliance checker.                                                     *)
(***************************************************************************)
SizeIssue(target, current) == [kind |-> "size", target |-> target, current |-> current]
IndentIssue == [kind |-> "indent", target |-> 0, current |-> 0]

\* Mutant of ScanRuns: the loop has no break.
RECURSIVE ScanRuns_nobreak(_, _)
ScanRuns_nobreak(runs, target_size) ==
    IF runs = <<>> THEN <<>>
    ELSE LET current == get_run_size(Head(runs))
         IN  IF current # 0 /\ current # target_size
             THEN <<SizeIssue(target_size, current)>> \o ScanRuns_nobreak(Tail(runs), target_size)
             ELSE ScanRuns_nobreak(Tail(runs), target_size)

\* The loop over the runs of check_format: the first run whose size is
\* neither 0 nor the target gives one description, then the loop breaks.
RECURSIVE ScanRuns(_, _)
ScanRuns(runs, target_size) ==
    IF runs = <<>> THEN <<>>
    ELSE LET current == get_run_size(Head(runs))
         IN  IF current # 0 /\ current # target_size
             THEN <<SizeIssue(target_size, current)>>
             ELSE ScanRuns(Tail(runs), target_size)

\* has_indent of check_format.
has_indent(para) ==
    para.hasPPr /\ para.ind.present /\ para.ind.firstLine # Absent

\* The para_issues list of one paragraph that is not skipped.
ParaIssues(para, level, tmpl) ==
    ScanRuns(para.runs, tmpl.sizes[level])
    \o (IF level = "body" /\ tmpl.first_line_indent /\ ~ has_indent(para)
        THEN <<IndentIssue>> ELSE <<>>)

Prefix(t, n) == SubSeq(t, 1, IF Len(t) < n THEN Len(t) ELSE n)

\* Mutant of Skipped: a paragraph without runs is not skipped.
Skipped_textOnly(para) == strip(para.text) = <<>>

\* The condition of `continue` in the loops of check_format and convert_document.
Skipped(para) == strip(para.text) = <<>> \/ para.runs = <<>>

\* check_format's loop over paragraphs i..Len(paragraphs).  The field para is
\* the position of the paragraph the issue is about (not in the code's
\* record; kept to state properties per paragraph).
RECURSIVE CheckFrom(_, _, _, _)
CheckFrom(paragraphs, sizes, tmpl, i) ==
    IF i > Len(paragraphs) THEN <<>>
    ELSE LET para == paragraphs[i]
             level == detect_level(para, sizes, i)
             para_issues == ParaIssues(para, level, tmpl)
         IN  IF Skipped(para) \/ para_issues = <<>>
             THEN CheckFrom(paragraphs, sizes, tmpl, i + 1)
             ELSE <<[level |-> level, text |-> Prefix(strip(para.text), 40),
                     issues |-> para_issues, para |-> i]>>
                  \o CheckFrom(paragraphs, sizes, tmpl, i + 1)

SizeProfile(paragraphs) ==
    [k \in 1..Len(paragraphs) |-> para_max_size(paragraphs[k])]

ProfileRaises(paragraphs) ==
    \E k \in 1..Len(paragraphs) : SizeRaises(paragraphs[k])

check_format(file, tmpl) ==
    IF file.kind # "docx" \/ ProfileRaises(file.paras)
    THEN [status |-> "error", list |-> <<>>]
    ELSE [status |-> "ok",
          list |-> CheckFrom(file.paras, SizeProfile(file.paras), tmpl, 1)]

(***************************************************************************)
(* Templates: the two of DEFAULT_CONFIG and one saved by TemplateEditor    *)
(* (a copy of the first with other sizes, single line spacing and the      *)
(* first-line indent switched off).  line_spacing is kept in tenths.       *)
(***************************************************************************)
TemplateGeneral ==
    [chinese_font |-> "SimSun", western_font |-> "Times New Roman",
     sizes |-> [main_title |-> 32, heading1 |-> 30, heading2 |-> 28,
                heading3 |-> 24, body |-> 21],
     line_spacing |-> 15,
     spacing |-> [main_title |-> <<24, 12>>, heading1 |-> <<24, 6>>,
                  heading2 |-> <<18, 6>>, heading3 |-> <<12, 6>>,
                  body |-> <<0, 0>>],
     first_line_indent |-> TRUE]

TemplateJournal ==
    [chinese_font |-> "SimSun", western_font |-> "Times New Roman",
     sizes |-> [main_title |-> 32, heading1 |-> 28, heading2 |-> 26,
                heading3 |-> 24, body |-> 24],
     line_spacing |-> 20,
     spacing |-> [main_title |-> <<12, 12>>, heading1 |-> <<12, 6>>,
                  heading2 |-> <<6, 6>>, heading3 |-> <<6, 3>>,
                  body |-> <<0, 0>>],
     first_line_indent |-> TRUE]

TemplateEdited ==
    [TemplateGeneral EXCEPT !.western_font = "Arial",
                            !.sizes = [main_title |-> 36, heading1 |-> 32,
                                       heading2 |-> 30, heading3 |-> 28,
                                       body |-> 24],
                            !.line_spacing = 10,
                            !.first_line_indent = FALSE]

Templates == {TemplateGeneral, TemplateJournal, TemplateEdited}

(***************************************************************************)
(* Documents the model starts from.                                        *)
(***************************************************************************)
Run(sz, b) == [sz |-> sz, szCs |-> sz, b |-> b,
               ascii |-> "", hAnsi |-> "", eastAsia |-> "", cs |-> ""]

NoSp == [present |-> FALSE, before |-> Absent, after |-> Absent,
         line |-> Absent, lineRule |-> ""]
NoInd == [present |-> FALSE, firstLine |-> Absent, firstLineChars |-> Absent,
          left |-> Absent, hanging |-> Absent]
Ind(firstLine, firstLineChars, left, hanging) ==
    [present |-> TRUE, firstLine |-> firstLine, firstLineChars |-> firstLineChars,
     left |-> left, hanging |-> hanging]

Para(text, runs, ind) ==
    [text |-> text, runs |-> runs, hasPPr |-> ind.present, sp |-> NoSp, ind |-> ind]

Pad(n) == [k \in 1..n |-> "x"]

\* Paragraphs of the documents of Spec: plain, bold, numbered, long, blank,
\* without runs, with stale indents, with several oversized runs.
ParaPool ==
    { Para(<<"x", "x">>, <<Run(Absent, "absent")>>, NoInd),
      Para(<<"x", "x">>, <<Run(28, "absent"), Run(30, "absent")>>, Ind(200, Absent, 100, Absent)),
      Para(<<"x">>, <<Run(20, "1")>>, NoInd),
      Para(<<"1", " ", "x">>, <<Run(36, "absent"), Run(36, "0")>>, Ind(Absent, 200, Absent, 300)),
      Para(<<"1", ".", "1", " ", "x">>, <<Run(28, "absent")>>, NoInd),
      Para(Pad(41), <<Run(21, "absent")>>, NoInd),
      Para(Pad(43), <<Run(28, "1"), Run(30, "absent")>>, Ind(Absent, 200, Absent, Absent)),
      Para(<<" ">>, <<Run(40, "absent")>>, NoInd),
      Para(<<"x", "x">>, <<>>, NoInd),
      Para(<<"x">>, <<Run(BadVal, "absent")>>, NoInd) }

SeqsUpTo(S, n) == UNION { [1..k -> S] : k \in 0..n }

Docs == SeqsUpTo(ParaPool, MaxParas) \ {<<>>}

Paths == {"A", "B"}
NoPath == ""

NoFile == [kind |-> "none", paras |-> <<>>]
Corrupt == [kind |-> "corrupt", paras |-> <<>>]
Docx(paragraphs) == [kind |-> "docx", paras |-> paragraphs]

NoResult == [status |-> "none", list |-> <<>>]

\* The values of the variables that the function-level specifications do not use.
NoCall ==
    /\ arg = [fn |-> "none"]
    /\ ret = [done |-> FALSE]

\* The state of the application before any command.
Idle(file, tmpl) ==
    /\ fs = [p \in Paths |-> IF p = "A" THEN file ELSE NoFile]
    /\ template = tmpl
    /\ pc = "idle"
    /\ inp = NoPath
    /\ out = NoPath
    /\ doc = <<>>
    /\ all_sizes = <<>>
    /\ idx = 0
    /\ count = 0
    /\ log = <<>>
    /\ levels = <<>>
    /\ writes = 0
    /\ errPhase = ""
    /\ lastOut = NoPath
    /\ lastLevels = <<>>
    /\ chained = FALSE
    /\ prevLevels = <<>>
    /\ issues = NoResult
    /\ checkedDoc = NoFile
    /\ checkedIsOutput = FALSE
    /\ converts = 0
    /\ inputBefore = NoFile

Init ==
    /\ \E file \in {Docx(d) : d \in Docs} \cup {Corrupt} :
         \E tmpl \in Templates : Idle(file, tmpl)
    /\ NoCall

(***************************************************************************)
(* convert_document, one action per step.  The loop body is one action;    *)
(* log_fn is the caller's callback and may raise.                          *)
(***************************************************************************)
ConvertFrame == UNCHANGED <<template, issues, checkedDoc, checkedIsOutput, arg, ret>>

\* The issue list is a local of App._check: it is gone when the next command starts.
NoCheck ==
    /\ issues' = NoResult
    /\ checkedDoc' = NoFile
    /\ checkedIsOutput' = FALSE
    /\ UNCHANGED <<template, arg, ret>>

\* The formatting of one classified paragraph (the two apply_ calls of the loop).
FormatPara(para, level, tmpl) ==
    apply_para_format(
        [para EXCEPT !.runs = [k \in 1..Len(para.runs) |->
            apply_run_format(para.runs[k], tmpl.sizes[level],
                             tmpl.chinese_font, tmpl.western_font)]],
        level, tmpl)

\* The progress line of one paragraph: the level and para.text[:42] with
\* "..." when the text is longer.  The field para is the position of the
\* paragraph (not in the message; kept to state the order).
ProgressLine(para, level, i) ==
    [kind |-> "para", level |-> level, preview |-> Prefix(para.text, 42),
     ellipsis |-> (Len(para.text) > 42), para |-> i, count |-> 0, path |-> NoPath]

\* The closing line: the number of processed paragraphs and the output path.
DoneLine(n, path) ==
    [kind |-> "done", level |-> "", preview |-> <<>>, ellipsis |-> FALSE,
     para |-> 0, count |-> n, path |-> path]

\* App._convert calls convert_document(inp, out, tmpl, self._log) when the input
\* file exists; Document(input_path) and the size profile come first.
StartConvert(input_path, output_path) ==
    /\ pc = "idle"
    /\ converts < MaxConverts
    /\ fs[input_path].kind # "none"
    /\ converts' = converts + 1
    /\ inp' = input_path
    /\ out' = output_path
    /\ inputBefore' = fs[input_path]
    /\ chained' = (lastOut = input_path)
    /\ prevLevels' = lastLevels
    /\ writes' = 0
    /\ count' = 0
    /\ log' = <<>>
    /\ IF fs[input_path].kind = "corrupt"
       THEN /\ pc' = "error" /\ errPhase' = "load"
            /\ doc' = <<>> /\ all_sizes' = <<>> /\ idx' = 0 /\ levels' = <<>>
       ELSE /\ doc' = fs[input_path].paras
            /\ levels' = [k \in 1..Len(fs[input_path].paras) |-> "none"]
            /\ IF ProfileRaises(fs[input_path].paras)
               THEN /\ pc' = "error" /\ errPhase' = "profile"
                    /\ all_sizes' = <<>> /\ idx' = 0
               ELSE /\ pc' = "loop" /\ errPhase' = ""
                    /\ all_sizes' = SizeProfile(fs[input_path].paras)
                    /\ idx' = 1
    /\ UNCHANGED <<fs, lastOut, lastLevels>>
    /\ NoCheck

\* The loop reaches a paragraph that is blank or has no runs: continue.
SkipPara ==
    /\ pc = "loop"
    /\ idx <= Len(doc)
    /\ Skipped(doc[idx])
    /\ levels' = [levels EXCEPT ![idx] = "skipped"]
    /\ idx' = idx + 1
    /\ UNCHANGED <<fs, pc, inp, out, doc, all_sizes, count, log, writes, errPhase,
                   lastOut, lastLevels, chained, prevLevels, converts, inputBefore>>
    /\ ConvertFrame

\* The loop body for a paragraph that is processed; logOk says whether the
\* call of log_fn returns or raises.
ProcessPara(logOk) ==
    /\ pc = "loop"
    /\ idx <= Len(doc)
    /\ ~ Skipped(doc[idx])
    /\ LET level == detect_level(doc[idx], all_sizes, idx)
       IN  /\ levels' = [levels EXCEPT ![idx] = level]
           /\ doc' = [doc EXCEPT ![idx] = FormatPara(doc[idx], level, template)]
           /\ count' = count + 1
           /\ IF logOk
              THEN /\ log' = Append(log, ProgressLine(doc[idx], level, idx))
                   /\ idx' = idx + 1
                   /\ UNCHANGED <<pc, errPhase>>
              ELSE /\ pc' = "error" /\ errPhase' = "progress"
                   /\ UNCHANGED <<log, idx>>
    /\ UNCHANGED <<fs, inp, out, all_sizes, writes, lastOut, lastLevels, chained,
                   prevLevels, converts, inputBefore>>
    /\ ConvertFrame

\* Mutant of LoopDone: the loop is left one paragraph early.
LoopDone_early(i, paragraphs) == i >= Len(paragraphs)

\* The for loop over the paragraphs is exhausted.
LoopDone(i, paragraphs) == i > Len(paragraphs)

\* doc.save(output_path) after the loop.
SaveDoc ==
    /\ pc = "loop"
    /\ LoopDone(idx, doc)
    /\ fs' = [fs EXCEPT ![out] = Docx(doc)]
    /\ writes' = writes + 1
    /\ lastOut' = out
    /\ lastLevels' = levels
    /\ pc' = "final"
    /\ UNCHANGED <<inp, out, doc, all_sizes, idx, count, log, levels, errPhase,
                   chained, prevLevels, converts, inputBefore>>
    /\ ConvertFrame

\* doc.save raises: the file could not be opened (nothing written) or the
\* write stopped half way (a truncated file is left).
SaveFails(truncated) ==
    /\ pc = "loop"
    /\ LoopDone(idx, doc)
    /\ pc' = "error"
    /\ errPhase' = "save"
    /\ IF truncated
       THEN /\ fs' = [fs EXCEPT ![out] = Corrupt]
            /\ writes' = writes + 1
            /\ lastOut' = IF lastOut = out THEN NoPath ELSE lastOut
       ELSE UNCHANGED <<fs, writes, lastOut>>
    /\ UNCHANGED <<inp, out, doc, all_sizes, idx, count, log, levels, lastLevels,
                   chained, prevLevels, converts, inputBefore>>
    /\ ConvertFrame

\* The closing call of log_fn, after the save.
FinalLog(logOk) ==
    /\ pc = "final"
    /\ IF logOk
       THEN /\ log' = Append(log, DoneLine(count, out))
            /\ pc' = "done"
            /\ UNCHANGED errPhase
       ELSE /\ pc' = "error" /\ errPhase' = "final"
            /\ UNCHANGED log
    /\ UNCHANGED <<fs, inp, out, doc, all_sizes, idx, count, levels, writes, lastOut,
                   lastLevels, chained, prevLevels, converts, inputBefore>>
    /\ ConvertFrame

\* convert_document has returned or raised (App._convert catches the
\* exception); its arguments and locals are gone and the application waits
\* for the next command.
Return ==
    /\ pc \in {"done", "error"}
    /\ pc' = "idle"
    /\ inp' = NoPath
    /\ out' = NoPath
    /\ doc' = <<>>
    /\ all_sizes' = <<>>
    /\ idx' = 0
    /\ count' = 0
    /\ log' = <<>>
    /\ levels' = <<>>
    /\ writes' = 0
    /\ errPhase' = ""
    /\ chained' = FALSE
    /\ prevLevels' = <<>>
    /\ inputBefore' = NoFile
    /\ UNCHANGED <<fs, lastOut, lastLevels, converts>>
    /\ ConvertFrame

\* App._check calls check_format(inp, tmpl) when the file exists.
CheckFormat(path) ==
    /\ pc = "idle"
    /\ fs[path].kind # "none"
    /\ issues' = check_format(fs[path], template)
    /\ checkedDoc' = fs[path]
    /\ checkedIsOutput' = (lastOut = path)
    /\ UNCHANGED <<fs, template, pc, inp, out, doc, all_sizes, idx, count, log,
                   levels, writes, errPhase, lastOut, lastLevels, chained,
                   prevLevels, converts, inputBefore, arg, ret>>

Next ==
    \/ \E i \in Paths : \E o \in Paths : StartConvert(i, o)
    \/ SkipPara
    \/ \E logOk \in BOOLEAN : ProcessPara(logOk)
    \/ SaveDoc
    \/ \E truncated \in BOOLEAN : SaveFails(truncated)
    \/ \E logOk \in BOOLEAN : FinalLog(logOk)
    \/ Return
    \/ \E p \in Paths : CheckFormat(p)

Spec == Init /\ [][Next]_vars

(***************************************************************************)
(* Function-level specifications: the inputs are drawn in the initial      *)
(* state and one action applies the function.                              *)
(***************************************************************************)
PureFrame ==
    UNCHANGED <<fs, template, pc, inp, out, doc, all_sizes, idx, count, log,
                levels, writes, errPhase, lastOut, lastLevels, chained,
                prevLevels, issues, checkedDoc, checkedIsOutput, converts,
                inputBefore, arg>>

\* ---- the numbering patterns -------------------------------------------
RegexAlphabet == {"1", "F1", ".", "F.", "x"}

InitRegex ==
    /\ Idle(NoFile, TemplateGeneral)
    /\ \E t \in SeqsUpTo(RegexAlphabet, MaxTextLen) : arg = [fn |-> "match", text |-> t]
    /\ ret = [done |-> FALSE, h3 |-> FALSE, h2 |-> FALSE]

MatchPatterns ==
    /\ ~ ret.done
    /\ ret' = [done |-> TRUE, h3 |-> RE_HEADING3(arg.text), h2 |-> RE_HEADING2(arg.text)]
    /\ PureFrame

SpecRegex == InitRegex /\ [][MatchPatterns]_vars

\* ---- detect_level ------------------------------------------------------
DetectHeads ==
    { <<>>, <<"x">>, <<" ", "x">>, <<"1", "x">>,
      <<"1", ".", "1", ".", "1">>, <<"F1", "F.", "1">>, <<"1", " ">>,
      <<"DI", "CN", "ZHANG">> }

DetectTexts == { h \o Pad(n) : h \in DetectHeads, n \in {0} \cup (27..MaxPad) }

DetectRuns == { Run(sz, b) : sz \in {Absent, 20}, b \in {"absent", "1", "0"} }

NeighbourSizes == SeqsUpTo({0, 20, 30}, 1)

InitDetect ==
    /\ Idle(NoFile, TemplateGeneral)
    /\ \E t \in DetectTexts : \E rs \in SeqsUpTo(DetectRuns, MaxRuns) :
         \E l \in NeighbourSizes : \E r \in NeighbourSizes :
            arg = [fn |-> "detect_level", para |-> Para(t, rs, NoInd),
                   left |-> l, right |-> r]
    /\ ret = [done |-> FALSE, level |-> ""]

\* The call detect_level(para, all_sizes, idx) with the profile made of the
\* neighbours' sizes and the paragraph's own maximum size.
Classify ==
    /\ ~ ret.done
    /\ ret' = [done |-> TRUE,
               level |-> detect_level(arg.para,
                                      arg.left \o <<para_max_size(arg.para)>> \o arg.right,
                                      Len(arg.left) + 1)]
    /\ PureFrame

SpecDetect == InitDetect /\ [][Classify]_vars

\* ---- apply_para_format -------------------------------------------------
StaleValues == {Absent, 200}

PriorInds ==
    {NoInd} \cup { Ind(a, b, c, d) : a \in StaleValues, b \in StaleValues,
                                     c \in StaleValues, d \in StaleValues }

PriorSps ==
    {NoSp, [present |-> TRUE, before |-> 100, after |-> Absent,
            line |-> 400, lineRule |-> "exact"]}

PriorParas ==
    { [text |-> <<"x">>, runs |-> <<Run(20, "absent")>>,
       hasPPr |-> (h \/ sp.present \/ ind.present), sp |-> sp, ind |-> ind] :
      h \in BOOLEAN, sp \in PriorSps, ind \in PriorInds }

InitParaFormat ==
    /\ Idle(NoFile, TemplateGeneral)
    /\ \E para \in PriorParas : \E level \in Levels : \E tmpl \in Templates :
         /\ arg = [fn |-> "apply_para_format", para |-> para, level |-> level,
                   tmpl |-> tmpl]
         /\ ret = [done |-> FALSE, para |-> para]

ApplyParaFormat ==
    /\ ~ ret.done
    /\ ret' = [done |-> TRUE, para |-> apply_para_format(arg.para, arg.level, arg.tmpl)]
    /\ PureFrame

SpecParaFormat == InitParaFormat /\ [][ApplyParaFormat]_vars

\* ---- load_config and App.__init__ --------------------------------------
\* A JSON value is kept as its shape and, for an object with a "templates"
\* member, the mapping from template names to templates.
NoTemplates == [n \in {} |-> TemplateGeneral]

JsonConfig(templates) == [shape |-> "config", templates |-> templates]

\* Valid JSON that is not a configuration: an object without "templates"
\* (for instance {}) or a value that is not an object (for instance []).
JsonOther == { [shape |-> sh, templates |-> NoTemplates] :
               sh \in {"object_without_templates", "not_object"} }

NoValue == [shape |-> "none", templates |-> NoTemplates]

DEFAULT_CONFIG ==
    JsonConfig([n \in {"General", "Journal"} |->
                   IF n = "General" THEN TemplateGeneral ELSE TemplateJournal])

TemplateNames == {"General", "Journal", "Mine"}

\* The configurations a user can have saved: one or more named templates.
StoredConfigs ==
    { JsonConfig(f) : f \in UNION { [names -> Templates] :
                                     names \in (SUBSET TemplateNames) \ {{}} } }

\* What config.json can be when the application starts: not there, there but
\* not readable, there but not JSON (truncated, garbage), or JSON.
ConfigFiles ==
    { [kind |-> k, value |-> NoValue] : k \in {"missing", "unreadable", "notjson"} }
    \cup { [kind |-> "json", value |-> v] : v \in StoredConfigs \cup JsonOther }

\* save_config: open(CONFIG_FILE, "w") and json.dump; raises when the file
\* cannot be opened for writing.
save_config(file, config, writable) ==
    IF writable
    THEN [raised |-> FALSE, file |-> [kind |-> "json", value |-> config]]
    ELSE [raised |-> TRUE, file |-> file]

\* load_config: the parsed content when the file exists and json.load
\* returns; otherwise (no file, or the exception of open/json.load is
\* swallowed) save_config(DEFAULT_CONFIG), outside the try, and the default.
load_config(file, writable) ==
    IF file.kind = "json"
    THEN [raised |-> FALSE, value |-> file.value, file |-> file]
    ELSE LET saved == save_config(file, DEFAULT_CONFIG, writable)
         IN  IF saved.raised
             THEN [raised |-> TRUE, value |-> NoValue, file |-> saved.file]
             ELSE [raised |-> FALSE, value |-> DEFAULT_CONFIG, file |-> saved.file]

\* App._build_ui reads config_data["templates"].keys() and selects the first
\* template: it raises on a value without that member or without a template.
BuildUiRaises(config) ==
    config.shape # "config" \/ DOMAIN config.templates = {}

InitConfig ==
    /\ Idle(NoFile, TemplateGeneral)
    /\ \E file \in ConfigFiles : \E writable \in BOOLEAN :
         /\ arg = [fn |-> "load_config", file |-> file, writable |-> writable]
         /\ ret = [stage |-> "start", value |-> NoValue, file |-> file]

\* App.__init__: self.config_data = load_config().
LoadConfig ==
    /\ ret.stage = "start"
    /\ LET r == load_config(arg.file, arg.writable)
       IN  ret' = [stage |-> IF r.raised THEN "raised" ELSE "loaded",
                   value |-> r.value, file |-> r.file]
    /\ PureFrame

\* App.__init__: self._build_ui() with the loaded configuration.
BuildUi ==
    /\ ret.stage = "loaded"
    /\ ret' = [ret EXCEPT !.stage = IF BuildUiRaises(ret.value) THEN "raised" ELSE "ready"]
    /\ PureFrame

NextConfig == LoadConfig \/ BuildUi

SpecConfig == InitConfig /\ [][NextConfig]_vars

\* ---- the loop of convert_document in any order --------------------------
\* Mutant of ProfileAt: the neighbours' sizes are read from the document as
\* it is now instead of from the list made before the loop.
ProfileAt_live(profile, paragraphs) == SizeProfile(paragraphs)

\* The size list handed to detect_level in the loop: all_sizes, computed once
\* from the loaded document before the loop, whatever has been formatted since.
ProfileAt(profile, paragraphs) == profile

\* The loop of convert_document in document order from paragraph i on: the
\* document and the levels when the loop is over.
RECURSIVE SequentialConvert(_, _, _, _, _)
SequentialConvert(paragraphs, lv, sizes, tmpl, i) ==
    IF i > Len(paragraphs) THEN [doc |-> paragraphs, levels |-> lv]
    ELSE IF Skipped(paragraphs[i])
         THEN SequentialConvert(paragraphs, [lv EXCEPT ![i] = "skipped"], sizes, tmpl, i + 1)
         ELSE LET level == detect_level(paragraphs[i], sizes, i)
              IN  SequentialConvert(
                      [paragraphs EXCEPT ![i] = FormatPara(paragraphs[i], level, tmpl)],
                      [lv EXCEPT ![i] = level], sizes, tmpl, i + 1)

InitOrder ==
    /\ \E paragraphs \in Docs : \E tmpl \in Templates :
         /\ ~ ProfileRaises(paragraphs)
         /\ doc = paragraphs
         /\ all_sizes = SizeProfile(paragraphs)
         /\ levels = [k \in 1..Len(paragraphs) |-> "none"]
         /\ template = tmpl
         /\ arg = [fn |-> "any_order", paras |-> paragraphs]
    /\ ret = [order |-> <<>>]
    /\ fs = [p \in Paths |-> NoFile]
    /\ pc = "loop"
    /\ inp = NoPath
    /\ out = NoPath
    /\ idx = 0
    /\ count = 0
    /\ log = <<>>
    /\ writes = 0
    /\ errPhase = ""
    /\ lastOut = NoPath
    /\ lastLevels = <<>>
    /\ chained = FALSE
    /\ prevLevels = <<>>
    /\ issues = NoResult
    /\ checkedDoc = NoFile
    /\ checkedIsOutput = FALSE
    /\ converts = 0
    /\ inputBefore = NoFile

\* The loop body of convert_document for paragraph k, taken in any order:
\* continue for a blank or run-less paragraph, else classify and format.
ProcessInAnyOrder(k) ==
    /\ k \in 1..Len(doc)
    /\ levels[k] = "none"
    /\ idx' = k
    /\ ret' = [order |-> Append(ret.order, k)]
    /\ IF Skipped(doc[k])
       THEN /\ levels' = [levels EXCEPT ![k] = "skipped"]
            /\ UNCHANGED <<doc, count>>
       ELSE LET level == detect_level(doc[k], ProfileAt(all_sizes, doc), k)
            IN  /\ levels' = [levels EXCEPT ![k] = level]
                /\ doc' = [doc EXCEPT ![k] = FormatPara(doc[k], level, template)]
                /\ count' = count + 1
    /\ UNCHANGED <<fs, template, pc, inp, out, all_sizes, log, writes, errPhase,
                   lastOut, lastLevels, chained, prevLevels, issues, checkedDoc,
                   checkedIsOutput, converts, inputBefore, arg>>

NextOrder == \E k \in 1..MaxParas : ProcessInAnyOrder(k)

SpecOrder == InitOrder /\ [][NextOrder]_vars

(***************************************************************************)
(* Properties.                                                             *)
(***************************************************************************)
Processed(para) == strip(para.text) # <<>> /\ para.runs # <<>>

\* C1: when convert_document runs on the output of the previous run with the
\* same template, every processed paragraph gets the level it got in that
\* previous run.
C1_ReclassificationStable ==
    chained =>
        \A k \in 1..Len(levels) :
            levels[k] \notin {"none", "skipped"} => levels[k] = prevLevels[k]

\* C2: check_format with the same template on a document written by
\* convert_document returns no issue.
C2_CheckAfterConvertClean ==
    checkedIsOutput => issues.list = <<>>

\* C3: for a non-blank text that matches none of the numbering patterns,
\* detect_level gives main_title exactly when the text has at most 30
\* characters and (a run is bold or the paragraph's maximum size is larger
\* than both neighbours' sizes, 0 where there is no neighbour), and body
\* otherwise.
C3_TitleRule ==
    ret.done =>
        LET text == strip(arg.para.text)
            my == para_max_size(arg.para)
            prev == IF arg.left = <<>> THEN 0 ELSE arg.left[1]
            next == IF arg.right = <<>> THEN 0 ELSE arg.right[1]
            bold == \E k \in 1..Len(arg.para.runs) : arg.para.runs[k].b = "1"
        IN  (text # <<>> /\ ~ RE_HEADING3(text) /\ ~ RE_HEADING2(text) /\ ~ RE_HEADING1(text))
            => /\ ret.level \in {"main_title", "body"}
               /\ ret.level = "main_title"
                    <=> (Len(text) <= 30 /\ (bold \/ (my > prev /\ my > next)))

\* A short bold text without numbering, next to a larger neighbour, is main_title.
C3_Witness ==
    /\ ret.done
    /\ arg.fn = "detect_level"
    /\ arg.para.text = <<"x">> \o Pad(29)
    /\ para_is_bold(arg.para)
    /\ arg.left = <<30>>
    /\ ret.level = "main_title"

\* C4: a text that the three-level pattern matches is never matched by the
\* two-level pattern.
C4_TwoLevelExcludesThreeLevel ==
    ret.done => ~ (ret.h3 /\ ret.h2)

\* C5: a text of more than 40 characters (after trimming) is body, whatever
\* its numbering, boldness and sizes.
C5_LongIsBody ==
    ret.done => (Len(strip(arg.para.text)) > 40 => ret.level = "body")

\* A bold text of 41 characters that starts with a three-level number, larger
\* than its neighbours, is body.
C5_Witness ==
    /\ ret.done
    /\ arg.fn = "detect_level"
    /\ Len(strip(arg.para.text)) = 41
    /\ RE_HEADING3(arg.para.text)
    /\ para_is_bold(arg.para)
    /\ para_max_size(arg.para) = 20
    /\ arg.left = <<0>> /\ arg.right = <<0>>
    /\ ret.level = "body"

IndentedBody(level, tmpl) == level = "body" /\ tmpl.first_line_indent

\* C6 as stated: after apply_para_format an indented body paragraph has
\* firstLine = sizes.body * 20, and in every other case the paragraph has no
\* indent attribute left.
C6_NoIndentAttributeLeft ==
    ret.done =>
        IF IndentedBody(arg.level, arg.tmpl)
        THEN ret.para.ind.firstLine = arg.tmpl.sizes.body * 20
        ELSE /\ ret.para.ind.firstLine = Absent
             /\ ret.para.ind.firstLineChars = Absent
             /\ ret.para.ind.left = Absent
             /\ ret.para.ind.hanging = Absent

\* C6 as amended: after apply_para_format an indented body paragraph has
\* firstLine = sizes.body * 20; in every other case the paragraph has neither
\* firstLine nor firstLineChars; the other attributes of the indent element
\* (left, hanging) are in both cases what they were before.
C6_FirstLineIndentSetOrCleared ==
    ret.done =>
        /\ ret.para.hasPPr /\ ret.para.ind.present
        /\ IF IndentedBody(arg.level, arg.tmpl)
           THEN ret.para.ind.firstLine = arg.tmpl.sizes.body * 20
           ELSE /\ ret.para.ind.firstLine = Absent
                /\ ret.para.ind.firstLineChars = Absent
        /\ ret.para.ind.left = arg.para.ind.left
        /\ ret.para.ind.hanging = arg.para.ind.hanging

\* A heading that had firstLine and firstLineChars has lost both.
C6_Witness ==
    /\ ret.done
    /\ arg.fn = "apply_para_format"
    /\ arg.level = "heading1"
    /\ arg.para.ind.firstLine = 200
    /\ arg.para.ind.firstLineChars = 200
    /\ ret.para.ind.firstLine = Absent
    /\ ret.para.ind.firstLineChars = Absent

SizeDescriptions(issue) ==
    { k \in 1..Len(issue.issues) : issue.issues[k].kind = "size" }

HasMismatch(para, target) ==
    \E r \in 1..Len(para.runs) :
        get_run_size(para.runs[r]) # 0 /\ get_run_size(para.runs[r]) # target

\* C7: check_format gives at most one Issue per paragraph, with at most one
\* size description; a classified paragraph has a size description exactly
\* when one of its runs has a size that is neither 0 nor the template size of
\* its level; a paragraph without a problem has no Issue.
C7_OneIssuePerParagraph ==
    issues.status = "ok" =>
        LET paras == checkedDoc.paras
            sizes == SizeProfile(paras)
            L == issues.list
            IssuesOf(p) == { a \in 1..Len(L) : L[a].para = p }
        IN  /\ \A a \in 1..Len(L) :
                 /\ L[a].para \in 1..Len(paras)
                 /\ L[a].issues # <<>>
                 /\ Cardinality(SizeDescriptions(L[a])) <= 1
            /\ \A p \in 1..Len(paras) :
                 LET level == detect_level(paras[p], sizes, p)
                     target == template.sizes[level]
                     noIndent == /\ level = "body" /\ template.first_line_indent
                                 /\ ~ (paras[p].ind.present /\ paras[p].ind.firstLine # Absent)
                 IN  /\ Cardinality(IssuesOf(p)) <= 1
                     /\ IF Processed(paras[p])
                        THEN /\ (\E a \in IssuesOf(p) : SizeDescriptions(L[a]) # {})
                                   <=> HasMismatch(paras[p], target)
                             /\ IssuesOf(p) # {}
                                   <=> (HasMismatch(paras[p], target) \/ noIndent)
                        ELSE IssuesOf(p) = {}

\* A paragraph with two runs that both differ from the target has one Issue
\* with one size description.
C7_Witness ==
    /\ issues.status = "ok"
    /\ \E a \in 1..Len(issues.list) :
          LET para == checkedDoc.paras[issues.list[a].para]
              target == template.sizes[issues.list[a].level]
          IN  /\ Len(para.runs) = 2
              /\ \A r \in 1..2 : get_run_size(para.runs[r]) \notin {0, target}
              /\ Cardinality(SizeDescriptions(issues.list[a])) = 1

\* C8 as stated: the output path is written at most once and only after every
\* paragraph has been classified and formatted; when an error is raised
\* while loading, classifying, formatting or calling the callback, nothing
\* has been written.
C8_NothingWrittenOnError ==
    /\ writes <= 1
    /\ writes = 1 => \A k \in 1..Len(levels) : levels[k] # "none"
    /\ errPhase \in {"load", "profile", "progress", "final"} => writes = 0

\* C8 as amended: the output path is written at most once and only after
\* every paragraph has been classified and formatted; when an error is raised
\* while loading, classifying, formatting or calling the callback for a
\* paragraph, nothing has been written; when the closing call of the callback
\* raises, the output path holds the whole formatted document.
C8_AllOrNothing ==
    /\ writes <= 1
    /\ writes = 1 => \A k \in 1..Len(levels) : levels[k] # "none"
    /\ errPhase \in {"load", "profile", "progress"} => writes = 0
    /\ errPhase = "final" => (writes = 1 /\ fs[out] = Docx(doc))
    /\ pc \in {"final", "done"} => (writes = 1 /\ fs[out] = Docx(doc))

\* The callback raised for the second paragraph: one paragraph is formatted
\* and logged, nothing is written.
C8_Witness ==
    /\ pc = "error"
    /\ errPhase = "progress"
    /\ idx = 2
    /\ Len(log) = 1
    /\ writes = 0

\* C9: when convert_document has returned or raised, the file at the input
\* path is what it was before the call.
C9_InputUntouched ==
    pc \in {"done", "error"} => fs[inp] = inputBefore

\* The progress lines of the processed paragraphs among the first n.
RECURSIVE ExpectedLines(_, _, _)
ExpectedLines(paragraphs, lv, n) ==
    IF n = 0 THEN <<>>
    ELSE ExpectedLines(paragraphs, lv, n - 1)
         \o (IF Processed(paragraphs[n])
             THEN <<ProgressLine(paragraphs[n], lv[n], n)>> ELSE <<>>)

\* C10 as stated: when convert_document has returned, the calls of the
\* callback are one per processed paragraph, in document order, and nothing
\* else.
C10_OnlyParagraphLines ==
    pc = "done" => log = ExpectedLines(doc, levels, Len(doc))

\* C10 as amended: the calls of the callback are one per processed paragraph
\* (non-blank text and at least one run), in document order, none for a
\* skipped paragraph, followed, once the document is saved, by one closing
\* call that carries the number of processed paragraphs and the output path.
C10_ParagraphLinesThenClosing ==
    LET n == IF idx = 0 THEN 0 ELSE idx - 1
    IN  IF pc = "done"
        THEN log = ExpectedLines(doc, levels, Len(doc)) \o <<DoneLine(count, out)>>
        ELSE pc \in {"loop", "final", "error"} => log = ExpectedLines(doc, levels, n)

\* A conversion of a document with a skipped and a processed paragraph has
\* returned: one paragraph line and the closing line.
C10_Witness ==
    /\ pc = "done"
    /\ Len(doc) = 2
    /\ ~ Processed(doc[1])
    /\ Processed(doc[2])
    /\ Len(log) = 2
    /\ log[1].para = 2
    /\ log[2].kind = "done"

\* The file holds a configuration: JSON with a "templates" member.
ConfigIntact(file) == file.kind = "json" /\ file.value.shape = "config"

\* C11: when config.json is missing or corrupt, load_config writes the
\* default template set to the file and returns it, it is the configuration
\* the application uses, and nothing is raised; when the file is intact its
\* content is returned and the file is not rewritten.
C11_ConfigRecovered ==
    ret.stage # "start" =>
        IF ConfigIntact(arg.file)
        THEN /\ ret.value = arg.file.value
             /\ ret.file = arg.file
        ELSE /\ ret.stage # "raised"
             /\ ret.value = DEFAULT_CONFIG
             /\ ret.file = [kind |-> "json", value |-> DEFAULT_CONFIG]

\* C12: with the size profile built from the loaded document, whatever the
\* order in which the paragraphs are classified and formatted, every
\* paragraph gets the level and the formatting that the loop in document
\* order gives it, and a paragraph that is still to be processed is as it was
\* loaded: formatting one paragraph changes nothing of another.
C12_OrderIndependent ==
    LET sequential == SequentialConvert(arg.paras,
                                        [k \in 1..Len(arg.paras) |-> "none"],
                                        SizeProfile(arg.paras), template, 1)
    IN  \A k \in 1..Len(doc) :
            IF levels[k] = "none"
            THEN doc[k] = arg.paras[k]
            ELSE /\ levels[k] = sequential.levels[k]
                 /\ doc[k] = sequential.doc[k]

\* The second paragraph, a numbered heading with larger runs, was formatted
\* first and is now smaller than the first paragraph; the first paragraph,
\* processed after it, is still body as in document order.
C12_Witness ==
    /\ arg.fn = "any_order"
    /\ ret.order = <<2, 1>>
    /\ template = TemplateJournal
    /\ levels = <<"body", "heading1">>
    /\ para_max_size(arg.paras[1]) = 30
    /\ all_sizes[2] = 36
    /\ para_max_size(doc[2]) = 28

====
